---- MODULE Spec2Model ----
(***************************************************************************)
(* A model of bot.py: the FVG / retracement detector detect_ote and the    *)
(* monitor loop start_realtime_monitor with its collector pass, its dedup  *)
(* set seen_retracements and its daily reset.                              *)
(*                                                                         *)
(* Conventions.  A timestamp is a number of minutes of local (Europe/      *)
(* London) wall-clock time counted from midnight of day 0, so that the     *)
(* time of day is the timestamp modulo 24*60 and the calendar date is the  *)
(* quotient; no daylight-saving change falls inside a modelled series.     *)
(* Prices are small integers.  DataFrame positions 0..n-1 are the sequence *)
(* positions 1..n: range(2, len(df)) is 3..Len(df), range(fvg_idx + 2,     *)
(* len(df)) is fvg_idx+2..Len(df) and range(fvg_idx + 1, j) is             *)
(* fvg_idx+1..j-1, the offsets between positions being the source's.       *)
(***************************************************************************)
EXTENDS Integers, Sequences, FiniteSets, TLC

(***************************************************************************)
(* Bounds of the model.                                                    *)
(***************************************************************************)
\* longest candle series given to detect_ote
MaxLen == 5
\* last day of the monitor's clock; day 0 is a Thursday
MaxDay == 2
\* how many (symbol, timeframe) pairs of SYMBOLS x TIMEFRAMES a pass goes through
MaxPairs == 2
\* sleep slices after a pass, standing for int(interval / 5)
ActiveSlices == 2
\* sleep slices outside trading hours, standing for range(120)
IdleSlices == 3

VARIABLES
    df,       \* the candle series handed to detect_ote
    out,      \* what detect_ote returned for df
    dpc,      \* "input" before detect_ote has run on df, "done" after; "off"
              \* in the monitor's specification
    pc,                 \* where the main thread is in start_realtime_monitor
    now,                \* the London wall clock: [day, tod]
    stop_event,         \* threading.Event set by _handle_exit
    seen_retracements,  \* the global set of dedup keys
    last_cleared_date,  \* <<>> for None, else <<day>>
    retracement_hits,   \* run_collector's list of new retracements
    pair,               \* position of the pass in SYMBOLS x TIMEFRAMES
    snapshot,           \* ohlc_text and ote_text of the pair being written
    slices,             \* iterations left of the sleep loop
    table,              \* rows of dbo.TestDataset
    err,                \* the call that raised out of the loop, "" if none
    notified,           \* history: per key, the notifications listing it
                        \* since the last clear
    resets,             \* history: the times of day at which clear_database
                        \* was called on the clock's day
    late,               \* history: the times of day of the first two runs of
                        \* check_and_clear_database with hour >= 15 on the
                        \* clock's day
    signalled_in_pair,  \* history: the pair whose detection was done and
                        \* whose write was not when the signal arrived, or 0
    signalled_in_sleep, \* history: <<>>, or <<n>> once the signal has arrived
                        \* in a sleep loop, n slices having been slept to
                        \* their end since
    tick,               \* history: the branch start_realtime_monitor took in
                        \* this iteration, "Active" or "Idle", "" before
    pass_log,           \* history: per pair of the pass in flight, the frame
                        \* fetched, whether detection raised and the calls
                        \* of upsert_snapshot
    seen_before,        \* history: seen_retracements when run_collector was
                        \* entered in this iteration
    sent                \* history: the calls of send_telegram_message in
                        \* this iteration, each the list of keys it names

dvars == <<df, out, dpc>>
mvars == <<pc, now, stop_event, seen_retracements, last_cleared_date,
           retracement_hits, pair, snapshot, slices, table, err, notified,
           resets, late, signalled_in_pair, signalled_in_sleep, tick, pass_log,
           seen_before, sent>>
vars == <<dvars, mvars>>

(***************************************************************************)
(* Small helpers.                                                          *)
(***************************************************************************)
Min(a, b) == IF a <= b THEN a ELSE b
Max(a, b) == IF a >= b THEN a ELSE b

\* pd.Timestamp("HH:MM").time() as minutes after midnight
HM(h, m) == h * 60 + m

\* Timestamp.time(): the time of day of a timestamp
TimeOfDay(date) == date % (24 * 60)

(***************************************************************************)
(* detect_ote: the granularity class (lines 172-177).                      *)
(***************************************************************************)
RECURSIVE Insert(_, _)
Insert(x, s) ==
    IF s = <<>> THEN <<x>>
    ELSE IF x <= Head(s) THEN <<x>> \o s
    ELSE <<Head(s)>> \o Insert(x, Tail(s))

RECURSIVE Sorted(_)
Sorted(s) == IF s = <<>> THEN <<>> ELSE Insert(Head(s), Sorted(Tail(s)))

\* df['Date'].diff().dt.total_seconds() / 60 without its leading NaN
Time_Diff(d) == [i \in 1..(Len(d) - 1) |-> d[i + 1].Date - d[i].Date]

\* Series.median(): NaN when there is no value, else the middle value or the
\* mean of the two middle values.  The value is kept doubled (x2) so that a
\* mean of two integers stays an integer.
Median(s) ==
    LET n == Len(s)
        t == Sorted(s)
    IN  IF n = 0 THEN [nan |-> TRUE, x2 |-> 0]
        ELSE IF n % 2 = 1 THEN [nan |-> FALSE, x2 |-> 2 * t[(n + 1) \div 2]]
        ELSE [nan |-> FALSE, x2 |-> t[n \div 2] + t[n \div 2 + 1]]

avg_interval(d) == Median(Time_Diff(d))

\* the three flags of lines 175-177; every comparison with NaN is False
Flags(m) ==
    [is_1hr_interval |-> ~m.nan /\ 2 * 60 <= m.x2 /\ m.x2 < 2 * 75,
     is_15m_or_lower |-> ~m.nan /\ m.x2 <= 2 * 15,
     is_4hr_interval |-> ~m.nan /\ m.x2 >= 2 * 240]

(***************************************************************************)
(* detect_ote: FVG detection (lines 188-212).                              *)
(***************************************************************************)
\* a variant that leaves the first minute of the sub-hour window out
is_valid_fvg_time_open(f, fvg_time) ==
    IF f.is_15m_or_lower THEN HM(12, 15) < fvg_time /\ fvg_time <= HM(14, 30)
    ELSE IF f.is_1hr_interval THEN HM(7, 0) <= fvg_time /\ fvg_time <= HM(14, 30)
    ELSE TRUE

is_valid_fvg_time(f, fvg_time) ==
    IF f.is_15m_or_lower THEN HM(12, 15) <= fvg_time /\ fvg_time <= HM(14, 30)
    ELSE IF f.is_1hr_interval THEN HM(7, 0) <= fvg_time /\ fvg_time <= HM(14, 30)
    ELSE TRUE

\* the tuple appended to fvg_list: (type, fvg_high, fvg_low, fvg_date, fvg_idx)
Fvg(type, high, low, date, idx) ==
    [type |-> type, fvg_high |-> high, fvg_low |-> low,
     fvg_date |-> date, fvg_idx |-> idx]

\* a variant whose price comparisons are not strict
FvgAtNotStrict(d, f, i) ==
    LET prev_high == d[i - 2].High
        prev_low  == d[i - 2].Low
        curr_low  == d[i].Low
        curr_high == d[i].High
        valid     == is_valid_fvg_time(f, TimeOfDay(d[i - 1].Date))
    IN  (IF curr_low >= prev_high /\ valid
         THEN <<Fvg("Bullish", prev_high, curr_low, d[i - 1].Date, i - 1)>>
         ELSE <<>>)
        \o
        (IF curr_high <= prev_low /\ valid
         THEN <<Fvg("Bearish", curr_high, prev_low, d[i - 1].Date, i - 1)>>
         ELSE <<>>)

\* one iteration of the detection loop: what it appends to fvg_list
FvgAt(d, f, i) ==
    LET prev_high == d[i - 2].High
        prev_low  == d[i - 2].Low
        curr_low  == d[i].Low
        curr_high == d[i].High
        valid     == is_valid_fvg_time(f, TimeOfDay(d[i - 1].Date))
    IN  (IF curr_low > prev_high /\ valid
         THEN <<Fvg("Bullish", prev_high, curr_low, d[i - 1].Date, i - 1)>>
         ELSE <<>>)
        \o
        (IF curr_high < prev_low /\ valid
         THEN <<Fvg("Bearish", curr_high, prev_low, d[i - 1].Date, i - 1)>>
         ELSE <<>>)

RECURSIVE FvgFrom(_, _, _)
FvgFrom(d, f, i) ==
    IF i > Len(d) THEN <<>> ELSE FvgAt(d, f, i) \o FvgFrom(d, f, i + 1)

\* a variant that looks for the gap between two neighbouring bars
fvg_list_neighbours(d, f) ==
    LET at == SelectSeq([i \in 1..(Len(d) - 1) |-> i + 1],
                        LAMBDA i : d[i].Low > d[i - 1].High)
    IN  [n \in DOMAIN at |->
            Fvg("Bullish", d[at[n] - 1].High, d[at[n]].Low, d[at[n] - 1].Date, at[n] - 1)]

\* for i in range(2, len(df))
fvg_list(d, f) == FvgFrom(d, f, 3)

(***************************************************************************)
(* detect_ote: retracement detection (lines 215-255).                      *)
(***************************************************************************)
\* a variant whose hourly window is the one of the gap detection
is_valid_time_as_fvg(f, retrace_time) ==
    IF f.is_1hr_interval THEN HM(7, 0) <= retrace_time /\ retrace_time <= HM(14, 30)
    ELSE IF f.is_15m_or_lower THEN HM(12, 15) <= retrace_time /\ retrace_time <= HM(14, 30)
    ELSE IF f.is_4hr_interval THEN HM(10, 0) <= retrace_time /\ retrace_time <= HM(14, 30)
    ELSE TRUE

is_valid_time(f, retrace_time) ==
    IF f.is_1hr_interval THEN HM(12, 0) <= retrace_time /\ retrace_time <= HM(14, 30)
    ELSE IF f.is_15m_or_lower THEN HM(12, 15) <= retrace_time /\ retrace_time <= HM(14, 30)
    ELSE IF f.is_4hr_interval THEN HM(10, 0) <= retrace_time /\ retrace_time <= HM(14, 30)
    ELSE TRUE

\* the test of the k loop's body (lines 233 and 236)
MovedAwayAt(d, fvg, k) ==
    \/ fvg.type = "Bullish" /\ d[k].High > fvg.fvg_low
    \/ fvg.type = "Bearish" /\ d[k].Low < fvg.fvg_high

\* the k loop from k up to j - 1, left at the first bar that passes the test
RECURSIVE MovedAwayFrom(_, _, _, _)
MovedAwayFrom(d, fvg, k, j) ==
    IF k >= j THEN FALSE
    ELSE IF MovedAwayAt(d, fvg, k) THEN TRUE
    ELSE MovedAwayFrom(d, fvg, k + 1, j)

\* a variant whose k loop starts after bar fvg_idx + 1
moved_away_later(d, fvg, j) == MovedAwayFrom(d, fvg, fvg.fvg_idx + 2, j)

\* a variant whose k loop looks at the bar before the candidate only
moved_away_last(d, fvg, j) == MovedAwayFrom(d, fvg, j - 1, j)

\* moved_away after: for k in range(fvg_idx + 1, j)
moved_away(d, fvg, j) == MovedAwayFrom(d, fvg, fvg.fvg_idx + 1, j)

\* a variant that asks bar j to cover the whole gap
IsRetraceCover(d, fvg, j) ==
    d[j].Low <= Min(fvg.fvg_high, fvg.fvg_low) /\ d[j].High >= Max(fvg.fvg_high, fvg.fvg_low)

\* the retrace test (lines 244 and 251)
IsRetrace(d, fvg, j) ==
    IF fvg.type = "Bullish"
    THEN d[j].Low <= fvg.fvg_low /\ d[j].High >= fvg.fvg_high
    ELSE d[j].High >= fvg.fvg_high /\ d[j].Low <= fvg.fvg_low

\* What the body of the j loop does with candidate j: "time" and "moved" are the
\* two continue statements, "hit" the flagged bar, "miss" a failed retrace test.
Candidate(d, f, fvg, j) ==
    IF ~is_valid_time(f, TimeOfDay(d[j].Date)) THEN "time"
    ELSE IF ~moved_away(d, fvg, j) THEN "moved"
    ELSE IF IsRetrace(d, fvg, j) THEN "hit"
    ELSE "miss"

\* a variant without the break statements
LeavesScanNever(outcome) == FALSE

\* whether the j loop is left after a candidate with this outcome (the breaks)
LeavesScan(outcome) == outcome = "hit"

\* the j loop from j on: the candidates it visits, in order, with their outcome
RECURSIVE ScanFrom(_, _, _, _)
ScanFrom(d, f, fvg, j) ==
    IF j > Len(d) THEN <<>>
    ELSE LET o == Candidate(d, f, fvg, j)
         IN  <<[j |-> j, outcome |-> o]>>
             \o (IF LeavesScan(o) THEN <<>> ELSE ScanFrom(d, f, fvg, j + 1))

\* for j in range(fvg_idx + 2, len(df))
Scan(d, f, fvg) == ScanFrom(d, f, fvg, fvg.fvg_idx + 2)

\* the columns Retracement_Flag and FVG_Date of a row; FVG_Date is <<>> for NaN
NoRetracement == [Retracement_Flag |-> FALSE, FVG_Date |-> <<>>]

\* the assignments of lines 245-246 and 252-253 for one scan
Flagged(rows, fvg, scan) ==
    [j \in DOMAIN rows |->
        IF \E n \in DOMAIN scan : scan[n].j = j /\ scan[n].outcome = "hit"
        THEN [Retracement_Flag |-> TRUE, FVG_Date |-> <<fvg.fvg_date>>]
        ELSE rows[j]]

\* the outer loop over fvg_list from its n-th element on
RECURSIVE TrackFrom(_, _, _, _)
TrackFrom(gaps, scans, n, rows) ==
    IF n > Len(gaps) THEN rows
    ELSE TrackFrom(gaps, scans, n + 1, Flagged(rows, gaps[n], scans[n]))

\* detect_ote(df): the list of gaps, the scan of each gap and the flagged rows
detect_ote(d) ==
    LET f     == Flags(avg_interval(d))
        gaps  == fvg_list(d, f)
        scans == [n \in DOMAIN gaps |-> Scan(d, f, gaps[n])]
    IN  [fvg_list |-> gaps,
         scans    |-> scans,
         rows     |-> TrackFrom(gaps, scans, 1, [j \in DOMAIN d |-> NoRetracement])]

(***************************************************************************)
(* The series detect_ote is applied to.                                    *)
(***************************************************************************)
\* price levels, and the (Low, High) of a candle
Prices == {1, 2, 3}
Shapes == {hl \in [High : Prices, Low : Prices] : hl.Low <= hl.High}

\* First timestamp and spacing of a series; with skip one candle is missing
\* after the second, so that the spacings are not all the same.
TimeBases ==
    {[start |-> HM(12, 13), step |-> 1,   skip |-> FALSE],
     [start |-> HM(14, 28), step |-> 1,   skip |-> FALSE],
     [start |-> HM(12, 0),  step |-> 15,  skip |-> FALSE],
     [start |-> HM(12, 0),  step |-> 15,  skip |-> TRUE],
     [start |-> HM(14, 0),  step |-> 15,  skip |-> FALSE],
     [start |-> HM(5, 0),   step |-> 60,  skip |-> FALSE],
     [start |-> HM(11, 0),  step |-> 60,  skip |-> FALSE],
     [start |-> HM(11, 0),  step |-> 60,  skip |-> TRUE],
     [start |-> HM(18, 0),  step |-> 240, skip |-> FALSE],
     [start |-> HM(10, 30), step |-> 30,  skip |-> FALSE]}

Stamp(tb, i) ==
    tb.start + (i - 1) * tb.step + (IF tb.skip /\ i >= 3 THEN tb.step ELSE 0)

Candles(tb, hl) ==
    [i \in DOMAIN hl |-> [Date |-> Stamp(tb, i), High |-> hl[i].High, Low |-> hl[i].Low]]

NoResult == [fvg_list |-> <<>>, scans |-> <<>>, rows |-> <<>>]

(***************************************************************************)
(* Specification SpecDetect: detect_ote applied to any bounded series.     *)
(***************************************************************************)
\* the monitor's variables when only detect_ote is exercised
MonitorOff ==
    /\ pc = "off"
    /\ now = [day |-> 0, tod |-> 0]
    /\ stop_event = FALSE
    /\ seen_retracements = {}
    /\ last_cleared_date = <<>>
    /\ retracement_hits = <<>>
    /\ pair = 0
    /\ snapshot = <<>>
    /\ slices = 0
    /\ table = {}
    /\ err = ""
    /\ notified = <<>>
    /\ resets = <<>>
    /\ late = <<>>
    /\ signalled_in_pair = 0
    /\ signalled_in_sleep = <<>>
    /\ tick = ""
    /\ pass_log = <<>>
    /\ seen_before = {}
    /\ sent = <<>>

InitDetect ==
    /\ MonitorOff
    /\ \E n \in 0..MaxLen : \E tb \in TimeBases : \E hl \in [1..n -> Shapes] :
           df = Candles(tb, hl)
    /\ out = NoResult
    /\ dpc = "input"

Detect ==
    /\ dpc = "input"
    /\ out' = detect_ote(df)
    /\ dpc' = "done"
    /\ UNCHANGED <<df, mvars>>

NextDetect == Detect

SpecDetect == InitDetect /\ [][NextDetect]_vars

(***************************************************************************)
(* The monitor: constants and clock.                                       *)
(***************************************************************************)
SYMBOLS == <<"EUR_USD", "GBP_USD", "USD_JPY", "USD_CAD", "NAS100_USD", "EUR_CAD">>
TIMEFRAMES == <<"M15", "H1", "H4">>

\* the pairs in the order of the two nested loops of run_collector
AllPairs ==
    [n \in 1..(Len(SYMBOLS) * Len(TIMEFRAMES)) |->
        [symbol |-> SYMBOLS[((n - 1) \div Len(TIMEFRAMES)) + 1],
         tf     |-> TIMEFRAMES[((n - 1) % Len(TIMEFRAMES)) + 1]]]

NumPairs == Min(MaxPairs, Len(AllPairs))

\* The instants the clock is read at.  15:00 is the instant 15:00:00.000000,
\* the last one of the trading window and the first one with hour 15.
ClockTimes == {HM(12, 0), HM(12, 45), HM(15, 0), HM(15, 1)}

Days == 0..MaxDay

\* datetime.weekday(): Monday is 0; day 0 of the model is a Thursday
Weekday(day) == (day + 3) % 7

Hour(tod) == tod \div 60

Before(a, b) == a.day < b.day \/ (a.day = b.day /\ a.tod < b.tod)

\* str(Timestamp) and strftime("%Y-%m-%d %H:%M") of a timestamp with zero
\* seconds: date, hour and minute
DateStr(date) == <<date \div (24 * 60), Hour(TimeOfDay(date)), TimeOfDay(date) % 60>>

(***************************************************************************)
(* What get_candles returns: an empty frame when the fetch fails or there  *)
(* is no candle, else a series.                                            *)
(***************************************************************************)
Flat(p) == [High |-> p, Low |-> p]

Quarters == [start |-> HM(12, 0), step |-> 15, skip |-> FALSE]

\* a Bullish gap anchored at 12:15 and retraced by the bar of 12:45
OneRetraced ==
    Candles(Quarters, <<Flat(1), Flat(1), [High |-> 3, Low |-> 2], Flat(1)>>)

\* the same series three candles later: a second Bullish gap, anchored at
\* 13:00 and retraced by the bar of 13:30
TwoRetraced ==
    Candles(Quarters, <<Flat(1), Flat(1), [High |-> 3, Low |-> 2], Flat(1),
                        [High |-> 2, Low |-> 1], [High |-> 3, Low |-> 2], Flat(1)>>)

\* three bars without a gap
Quiet == Candles(Quarters, <<Flat(1), Flat(1), Flat(1)>>)

\* the frames get_candles may return for the p-th pair
FeedSeries(p) ==
    IF p = 1 THEN {<<>>, OneRetraced, TwoRetraced}
    ELSE IF p = 2 THEN {<<>>, OneRetraced, Quiet}
    ELSE {<<>>, OneRetraced}

(***************************************************************************)
(* run_collector: the body of the pair loop (lines 335-360).               *)
(***************************************************************************)
\* format_ohlc_as_text: one line per bar
format_ohlc_as_text(d) ==
    [i \in DOMAIN d |-> [Date |-> DateStr(d[i].Date), High |-> d[i].High, Low |-> d[i].Low]]

FlaggedAs(res, type, i) ==
    \E n \in DOMAIN res.fvg_list :
        res.fvg_list[n].type = type /\ res.fvg_list[n].fvg_idx = i

\* the rows with one of the three flags set, in order
RECURSIVE OteRowsFrom(_, _, _)
OteRowsFrom(d, res, i) ==
    IF i > Len(d) THEN <<>>
    ELSE (IF \/ FlaggedAs(res, "Bullish", i)
             \/ FlaggedAs(res, "Bearish", i)
             \/ res.rows[i].Retracement_Flag
          THEN <<i>> ELSE <<>>) \o OteRowsFrom(d, res, i + 1)

\* format_ote_as_text: the text for no pattern, or one line per flagged row
\* with its dates and flags, FVG_Date being <<>> where the text has N/A
format_ote_as_text(d, res) ==
    LET ote_rows == OteRowsFrom(d, res, 1)
    IN  IF ote_rows = <<>> THEN [text |-> "No OTE patterns detected", lines |-> <<>>]
        ELSE [text |-> "",
              lines |->
                 [n \in DOMAIN ote_rows |->
                    LET i == ote_rows[n]
                    IN  [Date |-> DateStr(d[i].Date),
                         FVG_Date |-> IF res.rows[i].FVG_Date = <<>> THEN <<>>
                                      ELSE <<DateStr(res.rows[i].FVG_Date[1])>>,
                         Bullish_FVG_Flag |-> FlaggedAs(res, "Bullish", i),
                         Bearish_FVG_Flag |-> FlaggedAs(res, "Bearish", i),
                         Retracement_Flag |-> res.rows[i].Retracement_Flag]]]

\* key = (symbol, tf, str(row["FVG_Date"]))
Key(p, fvg_date) == <<AllPairs[p].symbol, AllPairs[p].tf, DateStr(fvg_date)>>

\* a variant of the membership test that takes every key for a new one
IsNewAlways(key, seen) == TRUE

\* if key not in seen_retracements
IsNew(key, seen) == key \notin seen

\* the loop over retrace_rows from row i on: st is [seen, hits]
RECURSIVE CollectFrom(_, _, _, _)
CollectFrom(p, res, i, st) ==
    IF i > Len(res.rows) THEN st
    ELSE IF ~res.rows[i].Retracement_Flag THEN CollectFrom(p, res, i + 1, st)
    ELSE LET key == Key(p, res.rows[i].FVG_Date[1])
         IN  IF IsNew(key, st.seen)
             THEN CollectFrom(p, res, i + 1,
                      [seen |-> st.seen \cup {key}, hits |-> Append(st.hits, key)])
             ELSE CollectFrom(p, res, i + 1, st)

\* a variant of the pair loop that is left once the event is set
AfterPairUnlessStopped(p) == IF p < NumPairs /\ ~stop_event THEN "pair" ELSE "close"

\* the pc after the body of the pair loop for pair p
AfterPair(p) == IF p < NumPairs THEN "pair" ELSE "close"

(***************************************************************************)
(* The actions of the monitor.                                             *)
(***************************************************************************)
Bump(f, k) == IF k \in DOMAIN f THEN [f EXCEPT ![k] = @ + 1] ELSE f @@ (k :> 1)

RECURSIVE BumpAll(_, _, _)
BumpAll(f, hits, n) ==
    IF n > Len(hits) THEN f ELSE BumpAll(Bump(f, hits[n]), hits, n + 1)

Running == pc \notin {"off", "exited", "crashed"}

\* Time passes.  now is what the next datetime.now() returns, and the thread
\* calls it in check_and_clear_database and in is_within_trading_hours only,
\* so the clock is moved just before these two readings.
AdvanceClock ==
    /\ pc \in {"check", "hours"}
    /\ \E d \in Days : \E t \in ClockTimes :
           /\ Before(now, [day |-> d, tod |-> t])
           /\ now' = [day |-> d, tod |-> t]
           /\ resets' = IF d = now.day THEN resets ELSE <<>>
           /\ late' = IF d = now.day THEN late ELSE <<>>
    /\ UNCHANGED <<dvars, pc, stop_event, seen_retracements, last_cleared_date,
                   retracement_hits, pair, snapshot, slices, table, err,
                   notified, signalled_in_pair, signalled_in_sleep, tick,
                   pass_log, seen_before, sent>>

\* _handle_exit, run on SIGTERM or SIGINT between two steps of the main thread
HandleExit ==
    /\ Running
    /\ stop_event' = TRUE
    /\ signalled_in_pair' =
           IF ~stop_event /\ pc = "upsert" THEN pair ELSE signalled_in_pair
    /\ signalled_in_sleep' =
           IF ~stop_event /\ pc \in {"sleep", "sleeping"} THEN <<0>>
           ELSE signalled_in_sleep
    /\ UNCHANGED <<dvars, pc, now, seen_retracements, last_cleared_date,
                   retracement_hits, pair, snapshot, slices, table, err,
                   notified, resets, late, tick, pass_log, seen_before, sent>>

\* while not stop_event.is_set()
LoopTest ==
    /\ pc = "while"
    /\ pc' = IF stop_event THEN "exited" ELSE "check"
    /\ tick' = ""
    /\ seen_before' = {}
    /\ sent' = <<>>
    /\ UNCHANGED <<dvars, now, stop_event, seen_retracements, last_cleared_date,
                   retracement_hits, pair, snapshot, slices, table, err,
                   notified, resets, late, signalled_in_pair,
                   signalled_in_sleep, pass_log>>

\* a variant of the test of lines 376-378 that forgets last_cleared_date
ResetDueEveryTick(n, last) == Weekday(n.day) < 5 /\ Hour(n.tod) >= 15

\* check_and_clear_database: whether clear_database is called
ResetDue(n, last) ==
    /\ ~(Weekday(n.day) >= 5)
    /\ Hour(n.tod) >= 15
    /\ last # <<n.day>>

\* check_and_clear_database, with clear_database either doing its work or
\* raising from open_db, execute or commit
CheckAndClear ==
    /\ pc = "check"
    /\ late' = IF Hour(now.tod) >= 15 /\ Len(late) < 2
               THEN Append(late, now.tod) ELSE late
    /\ IF ResetDue(now, last_cleared_date)
       THEN /\ resets' = Append(resets, now.tod)
            /\ \/ /\ table' = {}
                  /\ seen_retracements' = {}
                  /\ notified' = <<>>
                  /\ last_cleared_date' = <<now.day>>
                  /\ pc' = "hours"
                  /\ err' = err
               \/ /\ pc' = "crashed"
                  /\ err' = "clear_database"
                  /\ UNCHANGED <<table, seen_retracements, notified, last_cleared_date>>
       ELSE /\ pc' = "hours"
            /\ UNCHANGED <<resets, table, seen_retracements, notified,
                           last_cleared_date, err>>
    /\ UNCHANGED <<dvars, now, stop_event, retracement_hits, pair, snapshot,
                   slices, signalled_in_pair, signalled_in_sleep, tick, pass_log,
                   seen_before, sent>>

\* a variant without the test of the weekday
is_within_trading_hours_any_day(n) ==
    HM(12, 45) <= n.tod /\ n.tod <= HM(15, 0)

\* a variant whose window ends a minute later
is_within_trading_hours_late(n) ==
    Weekday(n.day) < 5 /\ HM(12, 45) <= n.tod /\ n.tod <= HM(15, 1)

is_within_trading_hours(n) ==
    Weekday(n.day) < 5 /\ HM(12, 45) <= n.tod /\ n.tod <= HM(15, 0)

\* if is_within_trading_hours(): ... else: ...
TradingHours ==
    /\ pc = "hours"
    /\ IF is_within_trading_hours(now)
       THEN pc' = "open" /\ slices' = slices /\ tick' = "Active"
       ELSE pc' = "sleep" /\ slices' = IdleSlices /\ tick' = "Idle"
    /\ UNCHANGED <<dvars, now, stop_event, seen_retracements, last_cleared_date,
                   retracement_hits, pair, snapshot, table, err, notified,
                   resets, late, signalled_in_pair, signalled_in_sleep, pass_log,
                   seen_before, sent>>

\* run_collector up to the pair loop: open_db and CREATE TABLE, either of
\* which may raise
OpenDb ==
    /\ pc = "open"
    /\ seen_before' = seen_retracements
    /\ sent' = <<>>
    /\ \/ /\ pc' = "pair"
          /\ pair' = 1
          /\ retracement_hits' = <<>>
          /\ err' = err
       \/ /\ pc' = "crashed"
          /\ err' = "open_db"
          /\ UNCHANGED <<pair, retracement_hits>>
    /\ UNCHANGED <<dvars, now, stop_event, seen_retracements, last_cleared_date,
                   snapshot, slices, table, notified, resets, late,
                   signalled_in_pair, signalled_in_sleep, tick, pass_log>>

\* the body of the pair loop up to upsert_snapshot: fetch, skip an empty
\* frame, format, detect and collect the new keys, or take the except branch
ProcessPair ==
    /\ pc = "pair"
    /\ \E d \in FeedSeries(pair) :
          IF d = <<>>
          THEN /\ pc' = AfterPair(pair)
               /\ pair' = pair + 1
               /\ pass_log' = Append(pass_log,
                                  [series |-> d, failed |-> FALSE, calls |-> <<>>])
               /\ UNCHANGED <<snapshot, seen_retracements, retracement_hits>>
          ELSE /\ pc' = "upsert"
               /\ pair' = pair
               /\ \/ LET res == detect_ote(d)
                         st  == CollectFrom(pair, res, 1,
                                    [seen |-> seen_retracements,
                                     hits |-> retracement_hits])
                     IN  /\ snapshot' = [ohlc_text |-> format_ohlc_as_text(d),
                                         ote_text  |-> format_ote_as_text(d, res)]
                         /\ seen_retracements' = st.seen
                         /\ retracement_hits' = st.hits
                         /\ pass_log' = Append(pass_log,
                                  [series |-> d, failed |-> FALSE, calls |-> <<>>])
                  \/ /\ snapshot' = [ohlc_text |-> format_ohlc_as_text(d),
                                     ote_text  |-> [text |-> "Error in OTE detection",
                                                    lines |-> <<>>]]
                     /\ pass_log' = Append(pass_log,
                              [series |-> d, failed |-> TRUE, calls |-> <<>>])
                     /\ UNCHANGED <<seen_retracements, retracement_hits>>
    /\ UNCHANGED <<dvars, now, stop_event, last_cleared_date, slices, table,
                   err, notified, resets, late, signalled_in_pair,
                   signalled_in_sleep, tick, seen_before, sent>>

\* a variant that labels the row with the symbol alone
LabelOfSymbol(p) == <<AllPairs[p].symbol>>

\* f"{symbol}_{tf}"
Label(p) == <<AllPairs[p].symbol, AllPairs[p].tf>>

\* upsert_snapshot: update the row of the label or insert it, or raise
Upsert ==
    /\ pc = "upsert"
    /\ pass_log' = [pass_log EXCEPT ![pair].calls =
                        Append(@, [label |-> Label(pair),
                                   ohlc_text |-> snapshot.ohlc_text,
                                   ote_text |-> snapshot.ote_text])]
    /\ \/ /\ table' = {r \in table : r.Label # Label(pair)}
                          \cup {[Label |-> Label(pair),
                                 OHLCDataT |-> snapshot.ohlc_text,
                                 OTEDataT |-> snapshot.ote_text]}
          /\ pc' = AfterPair(pair)
          /\ pair' = pair + 1
          /\ snapshot' = <<>>
          /\ err' = err
       \/ /\ pc' = "crashed"
          /\ err' = "upsert_snapshot"
          /\ UNCHANGED <<table, pair, snapshot>>
    /\ UNCHANGED <<dvars, now, stop_event, seen_retracements, last_cleared_date,
                   retracement_hits, slices, notified, resets, late,
                   signalled_in_pair, signalled_in_sleep, tick,
                   seen_before, sent>>

\* the end of run_collector: conn.close() and the combined notification;
\* send_telegram_message swallows its own failures
CloseAndNotify ==
    /\ pc = "close"
    /\ notified' = BumpAll(notified, retracement_hits, 1)
    /\ sent' = IF retracement_hits # <<>> THEN <<retracement_hits>> ELSE <<>>
    /\ retracement_hits' = <<>>
    /\ pc' = "sleep"
    /\ slices' = ActiveSlices
    /\ pass_log' = <<>>
    /\ UNCHANGED <<dvars, now, stop_event, seen_retracements, last_cleared_date,
                   pair, snapshot, table, err, resets, late, signalled_in_pair,
                   signalled_in_sleep, tick, seen_before>>

\* a variant of the sleep loops without their test of the event
SleepBreakNever(ev) == FALSE

\* if stop_event.is_set(): break
SleepBreak(ev) == ev

\* one iteration of a sleep loop begins: the event is not set and
\* time.sleep(5) is entered
SleepSlice ==
    /\ pc = "sleep"
    /\ slices > 0
    /\ ~SleepBreak(stop_event)
    /\ pc' = "sleeping"
    /\ UNCHANGED <<dvars, now, stop_event, seen_retracements, last_cleared_date,
                   retracement_hits, pair, snapshot, slices, table, err,
                   notified, resets, late, signalled_in_pair,
                   signalled_in_sleep, tick, pass_log, seen_before, sent>>

\* time.sleep(5) returns, a signal handled meanwhile not cutting it short
SleepDone ==
    /\ pc = "sleeping"
    /\ pc' = "sleep"
    /\ slices' = slices - 1
    /\ signalled_in_sleep' =
           IF signalled_in_sleep = <<>> THEN <<>> ELSE <<signalled_in_sleep[1] + 1>>
    /\ UNCHANGED <<dvars, now, stop_event, seen_retracements, last_cleared_date,
                   retracement_hits, pair, snapshot, table, err, notified,
                   resets, late, signalled_in_pair, tick, pass_log,
                   seen_before, sent>>

\* the sleep loop ends: the range is exhausted or the break is taken
SleepEnd ==
    /\ pc = "sleep"
    /\ slices = 0 \/ SleepBreak(stop_event)
    /\ pc' = "while"
    /\ slices' = 0
    /\ UNCHANGED <<dvars, now, stop_event, seen_retracements, last_cleared_date,
                   retracement_hits, pair, snapshot, table, err, notified,
                   resets, late, signalled_in_pair, signalled_in_sleep, tick,
                   pass_log, seen_before, sent>>

Init ==
    /\ df = <<>>
    /\ out = NoResult
    /\ dpc = "off"
    /\ pc = "while"
    /\ now \in [day : Days, tod : ClockTimes]
    /\ stop_event = FALSE
    /\ seen_retracements = {}
    /\ last_cleared_date = <<>>
    /\ retracement_hits = <<>>
    /\ pair = 0
    /\ snapshot = <<>>
    /\ slices = 0
    /\ table = {}
    /\ err = ""
    /\ notified = <<>>
    /\ resets = <<>>
    /\ late = <<>>
    /\ signalled_in_pair = 0
    /\ signalled_in_sleep = <<>>
    /\ tick = ""
    /\ pass_log = <<>>
    /\ seen_before = {}
    /\ sent = <<>>

Next ==
    \/ AdvanceClock
    \/ HandleExit
    \/ LoopTest
    \/ CheckAndClear
    \/ TradingHours
    \/ OpenDb
    \/ ProcessPair
    \/ Upsert
    \/ CloseAndNotify
    \/ SleepSlice
    \/ SleepDone
    \/ SleepEnd

Spec == Init /\ [][Next]_vars

(***************************************************************************)
(* Vocabulary of the claims about detect_ote.                              *)
(***************************************************************************)
\* the boundaries of a gap, whatever the names of the fields that hold them
LowerBound(g) == Min(g.fvg_high, g.fvg_low)
UpperBound(g) == Max(g.fvg_high, g.fvg_low)

GapNos == DOMAIN out.fvg_list
Gap(n) == out.fvg_list[n]
ScanOf(n) == out.scans[n]

\* the scan positions of gap n at which a bar was flagged
Hits(n) == {m \in DOMAIN ScanOf(n) : ScanOf(n)[m].outcome = "hit"}

\* candidate j passes the three gates for gap g
PassesGates(g, j) ==
    /\ is_valid_time(Flags(avg_interval(df)), TimeOfDay(df[j].Date))
    /\ moved_away(df, g, j)
    /\ IsRetrace(df, g, j)

Qualifying(g) == {j \in (g.fvg_idx + 2)..Len(df) : PassesGates(g, j)}

Least(S) == CHOOSE x \in S : \A y \in S : x <= y

\* C5: for every gap the tracker flags at most one bar; it flags one exactly
\* when some candidate j >= anchorIndex+2 passes the three gates, and then the
\* flagged bar is the least such j; the candidates visited are anchorIndex+2,
\* anchorIndex+3, ... without a hole up to the flagged bar, or up to the end
\* of the series when none is flagged, so a failed gate never ends the scan
\* and no bar after the flagged one is visited.
ThmC5 ==
    dpc = "done" =>
        \A n \in GapNos :
            LET g == Gap(n)
                scan == ScanOf(n)
                last == IF Qualifying(g) = {} THEN Len(df) ELSE Least(Qualifying(g))
            IN  /\ Cardinality(Hits(n)) <= 1
                /\ Len(scan) = Max(0, last - (g.fvg_idx + 2) + 1)
                /\ \A m \in DOMAIN scan :
                       /\ scan[m].j = g.fvg_idx + 1 + m
                       /\ (scan[m].outcome = "hit") <=> scan[m].j \in Qualifying(g)

\* a gap whose flagged bar comes after a candidate that failed a gate
WitC5 ==
    /\ dpc = "done"
    /\ \E n \in GapNos : \E m \in Hits(n) : m > 1

\* C6 as claimed: the moved-away gate of candidate j passes iff a bar k with
\* anchorIndex+1 < k < j has High > lowerBound (Bullish) or Low < upperBound
\* (Bearish), and candidate anchorIndex+2 is never flagged.
MovedAwayAsClaimed(g, j) ==
    \E k \in (g.fvg_idx + 2)..(j - 1) :
        \/ g.type = "Bullish" /\ df[k].High > LowerBound(g)
        \/ g.type = "Bearish" /\ df[k].Low < UpperBound(g)

CexC6 ==
    dpc = "done" =>
        \A n \in GapNos : \A m \in DOMAIN ScanOf(n) :
            LET c == ScanOf(n)[m]
            IN  /\ c.outcome # "time" =>
                       ((c.outcome # "moved") <=> MovedAwayAsClaimed(Gap(n), c.j))
                /\ c.j = Gap(n).fvg_idx + 2 => c.outcome # "hit"

\* C6 as amended: the moved-away gate of candidate j passes iff a bar k with
\* anchorIndex+1 <= k < j has High > upperBound (Bullish) or Low < lowerBound
\* (Bearish).
MovedAwayAsAmended(g, j) ==
    \E k \in (g.fvg_idx + 1)..(j - 1) :
        \/ g.type = "Bullish" /\ df[k].High > UpperBound(g)
        \/ g.type = "Bearish" /\ df[k].Low < LowerBound(g)

ThmC6 ==
    dpc = "done" =>
        \A n \in GapNos : \A m \in DOMAIN ScanOf(n) :
            LET c == ScanOf(n)[m]
            IN  c.outcome # "time" =>
                    ((c.outcome # "moved") <=> MovedAwayAsAmended(Gap(n), c.j))

\* candidate anchorIndex+2 is flagged, bar anchorIndex+1 being the only bar
\* the gate can have looked at
WitC6 ==
    /\ dpc = "done"
    /\ \E n \in GapNos : \E m \in Hits(n) : ScanOf(n)[m].j = Gap(n).fvg_idx + 2

\* C7 as claimed: a candidate that reaches the retrace test is flagged iff its
\* range covers the whole gap, Low <= lowerBound and High >= upperBound.
CexC7 ==
    dpc = "done" =>
        \A n \in GapNos : \A m \in DOMAIN ScanOf(n) :
            LET c == ScanOf(n)[m]
            IN  c.outcome \in {"hit", "miss"} =>
                    ((c.outcome = "hit") <=>
                        /\ df[c.j].Low <= LowerBound(Gap(n))
                        /\ df[c.j].High >= UpperBound(Gap(n)))

\* C7 as amended: a candidate that reaches the retrace test is flagged iff its
\* range meets the gap's range, Low <= upperBound and High >= lowerBound.
ThmC7 ==
    dpc = "done" =>
        \A n \in GapNos : \A m \in DOMAIN ScanOf(n) :
            LET c == ScanOf(n)[m]
            IN  c.outcome \in {"hit", "miss"} =>
                    ((c.outcome = "hit") <=>
                        /\ df[c.j].Low <= UpperBound(Gap(n))
                        /\ df[c.j].High >= LowerBound(Gap(n)))

\* a flagged bar that lies above the lower boundary: it overlaps the gap
\* without covering it
WitC7 ==
    /\ dpc = "done"
    /\ \E n \in GapNos : \E m \in Hits(n) :
           df[ScanOf(n)[m].j].Low > LowerBound(Gap(n))

\* C8: every gap of fvg_list is anchored at a bar i-1 with 2 <= i-1 < len, has
\* lowerBound < upperBound, and is Bullish with bar(i).Low > bar(i-2).High and
\* boundaries (bar(i-2).High, bar(i).Low), or Bearish with bar(i).High <
\* bar(i-2).Low and boundaries (bar(i).High, bar(i-2).Low).
ThmC8 ==
    dpc = "done" =>
        \A n \in GapNos :
            LET g == Gap(n)
                i == g.fvg_idx + 1
            IN  /\ i \in 3..Len(df)
                /\ LowerBound(g) < UpperBound(g)
                /\ g.type \in {"Bullish", "Bearish"}
                /\ g.type = "Bullish" =>
                       /\ df[i].Low > df[i - 2].High
                       /\ LowerBound(g) = df[i - 2].High
                       /\ UpperBound(g) = df[i].Low
                /\ g.type = "Bearish" =>
                       /\ df[i].High < df[i - 2].Low
                       /\ LowerBound(g) = df[i].High
                       /\ UpperBound(g) = df[i - 2].Low

\* a series with a Bullish and a Bearish gap
WitC8 ==
    /\ dpc = "done"
    /\ \E n \in GapNos : Gap(n).type = "Bullish"
    /\ \E n \in GapNos : Gap(n).type = "Bearish"

\* the window of C9 for a series with this median spacing (doubled), both
\* ends inclusive
InGapWindow(m, t) ==
    IF ~m.nan /\ m.x2 <= 2 * 15 THEN HM(12, 15) <= t /\ t <= HM(14, 30)
    ELSE IF ~m.nan /\ 2 * 60 <= m.x2 /\ m.x2 < 2 * 75 THEN HM(7, 0) <= t /\ t <= HM(14, 30)
    ELSE TRUE

\* C9: a Bullish (Bearish) gap anchored at the middle bar i-1 is in fvg_list
\* iff bars i-2 and i show the price gap and the time of day of bar i-1 lies
\* in the window of the series' granularity class: sub-hour 12:15 to 14:30,
\* hourly 07:00 to 14:30, any other class unrestricted.
ThmC9 ==
    dpc = "done" =>
        LET m == avg_interval(df)
            Listed(type, idx) ==
                \E n \in GapNos : Gap(n).type = type /\ Gap(n).fvg_idx = idx
        IN  /\ \A n \in GapNos :
                   /\ Gap(n).fvg_idx + 1 \in 3..Len(df)
                   /\ Gap(n).fvg_date = df[Gap(n).fvg_idx].Date
            /\ \A i \in 3..Len(df) :
                   LET inside == InGapWindow(m, TimeOfDay(df[i - 1].Date))
                   IN  /\ Listed("Bullish", i - 1) <=>
                              (df[i].Low > df[i - 2].High /\ inside)
                       /\ Listed("Bearish", i - 1) <=>
                              (df[i].High < df[i - 2].Low /\ inside)

\* a sub-hour series with a gap accepted at the anchor time 12:15 and a price
\* gap anchored at 12:14 that is not in fvg_list
WitC9 ==
    /\ dpc = "done"
    /\ avg_interval(df).x2 <= 2 * 15
    /\ \E n \in GapNos : TimeOfDay(Gap(n).fvg_date) = HM(12, 15)
    /\ \E i \in 3..Len(df) :
           /\ TimeOfDay(df[i - 1].Date) = HM(12, 14)
           /\ df[i].Low > df[i - 2].High
           /\ \A n \in GapNos : Gap(n).fvg_idx # i - 1

\* C15: for a series of fewer than 3 bars, the 1-bar series with its NaN
\* median included, detect_ote returns normally with an empty fvg_list and
\* one row per bar, none of them flagged as a retracement.
ThmC15 ==
    dpc = "done" /\ Len(df) < 3 =>
        /\ out.fvg_list = <<>>
        /\ out.scans = <<>>
        /\ Len(out.rows) = Len(df)
        /\ \A j \in DOMAIN out.rows : out.rows[j] = NoRetracement

\* a 2-bar series whose second bar lies wholly above the first
WitC15 ==
    /\ dpc = "done"
    /\ Len(df) = 2
    /\ df[2].Low > df[1].High

\* the window of C16 for a series with this median spacing (doubled), both
\* ends inclusive
InRetraceWindow(m, t) ==
    IF ~m.nan /\ m.x2 <= 2 * 15 THEN HM(12, 15) <= t /\ t <= HM(14, 30)
    ELSE IF ~m.nan /\ 2 * 60 <= m.x2 /\ m.x2 < 2 * 75 THEN HM(12, 0) <= t /\ t <= HM(14, 30)
    ELSE IF ~m.nan /\ m.x2 >= 2 * 240 THEN HM(10, 0) <= t /\ t <= HM(14, 30)
    ELSE TRUE

\* C16: every flagged bar has its time of day in the retrace window of the
\* series' class (sub-hour 12:15-14:30, hourly 12:00-14:30, multi-hour
\* 10:00-14:30, unclassified unrestricted); a candidate is skipped for its
\* time exactly when it is outside the window, and the scan then goes on with
\* the next bar, if there is one.
ThmC16 ==
    dpc = "done" =>
        LET m == avg_interval(df)
        IN  /\ \A j \in DOMAIN out.rows :
                   out.rows[j].Retracement_Flag =>
                       InRetraceWindow(m, TimeOfDay(df[j].Date))
            /\ \A n \in GapNos : \A k \in DOMAIN ScanOf(n) :
                   LET c == ScanOf(n)[k]
                   IN  /\ (c.outcome = "time") <=>
                              ~InRetraceWindow(m, TimeOfDay(df[c.j].Date))
                       /\ c.outcome = "time" /\ c.j < Len(df) =>
                              /\ k + 1 \in DOMAIN ScanOf(n)
                              /\ ScanOf(n)[k + 1].j = c.j + 1

\* a multi-hour series with a candidate skipped for its time and a later bar
\* flagged for the same gap
WitC16 ==
    /\ dpc = "done"
    /\ avg_interval(df).x2 >= 2 * 240
    /\ \E n \in GapNos : \E k \in DOMAIN ScanOf(n) : \E h \in Hits(n) :
           ScanOf(n)[k].outcome = "time" /\ k < h

\* the tracker that memoizes the gate: moved is whether a bar before j - 1 has
\* passed the test of the k loop, so that candidate j looks at bar j - 1 only
RECURSIVE MemoFrom(_, _, _, _, _)
MemoFrom(d, f, fvg, j, moved) ==
    IF j > Len(d) THEN <<>>
    ELSE LET mv == moved \/ MovedAwayAt(d, fvg, j - 1)
             o  == IF ~is_valid_time(f, TimeOfDay(d[j].Date)) THEN "time"
                   ELSE IF ~mv THEN "moved"
                   ELSE IF IsRetrace(d, fvg, j) THEN "hit"
                   ELSE "miss"
         IN  <<[j |-> j, outcome |-> o]>>
             \o (IF o = "hit" THEN <<>> ELSE MemoFrom(d, f, fvg, j + 1, mv))

\* C17: for every gap the moved-away gate that passes for a candidate j
\* passes for every later candidate, and the memoizing tracker visits the
\* same candidates with the same outcomes as the tracker that rescans the
\* bars for every candidate.
ThmC17 ==
    dpc = "done" =>
        \A n \in GapNos :
            LET g == Gap(n)
            IN  /\ \A j \in (g.fvg_idx + 2)..Len(df) : \A jj \in (j + 1)..Len(df) :
                       moved_away(df, g, j) => moved_away(df, g, jj)
                /\ ScanOf(n) = MemoFrom(df, Flags(avg_interval(df)), g,
                                        g.fvg_idx + 2, FALSE)

\* a gap whose first candidate fails the gate and whose second candidate is
\* flagged, the bar between them being the one that moved away
WitC17 ==
    /\ dpc = "done"
    /\ \E n \in GapNos :
           /\ Len(ScanOf(n)) = 2
           /\ ScanOf(n)[1].outcome = "moved"
           /\ ScanOf(n)[2].outcome = "hit"
           /\ ~MovedAwayAt(df, Gap(n), Gap(n).fvg_idx + 1)

\* C18 as claimed: every gap for which the tracker has flagged a bar has its
\* own key (instrument, timeframe, anchor timestamp) among the keys a pass
\* with an empty dedup set adds and lists, whatever bar was flagged.
CexC18 ==
    dpc = "done" =>
        \A n \in GapNos :
            Hits(n) # {} =>
                Key(1, Gap(n).fvg_date)
                    \in CollectFrom(1, out, 1, [seen |-> {}, hits |-> <<>>]).seen

(***************************************************************************)
(* Claims about the monitor.                                               *)
(***************************************************************************)
Listed(hits) == {hits[n] : n \in DOMAIN hits}

PassInFlight == pc \in {"pair", "upsert", "close"}

\* C1: since the last clear no key has been listed in more than one
\* notification; a key is in the dedup set exactly when a notification has
\* listed it or the pass in flight holds it in its batch, and the batch never
\* holds a key that a notification has listed: a pass that detects the gap of
\* a notified key again sends nothing for it.
ThmC1 ==
    /\ \A k \in DOMAIN notified : notified[k] = 1
    /\ DOMAIN notified \cap Listed(retracement_hits) = {}
    /\ Running \/ pc = "exited" =>
           seen_retracements = DOMAIN notified \cup Listed(retracement_hits)
    /\ ~PassInFlight /\ pc # "crashed" => retracement_hits = <<>>

\* a pass has detected, for the pair it is about to write, the retracement of
\* a gap whose key an earlier notification listed, and its batch is empty
WitC1 ==
    /\ pc = "upsert"
    /\ retracement_hits = <<>>
    /\ \E n \in DOMAIN snapshot.ote_text.lines :
           LET line == snapshot.ote_text.lines[n]
           IN  /\ line.Retracement_Flag
               /\ <<AllPairs[pair].symbol, AllPairs[pair].tf, line.FVG_Date[1]>>
                      \in DOMAIN notified

\* C2: on every day clear_database has been called exactly once if the day
\* is a weekday on which check_and_clear_database has run with hour >= 15,
\* and then at the first such run; otherwise it has not been called.
ThmC2 ==
    resets = IF Weekday(now.day) < 5 /\ late # <<>> THEN <<late[1]>> ELSE <<>>

\* a weekday with two runs at hour >= 15 and one call of clear_database
WitC2 ==
    Weekday(now.day) < 5 /\ Len(late) = 2 /\ Len(resets) = 1

\* C3 as claimed: the pair loop is not left by an error before its last pair.
CexC3 == err = "upsert_snapshot" => pair = NumPairs

\* C4 as claimed: no persistence failure ends the monitor loop.
CexC4 == err # "" => pc # "crashed"

\* C10 as claimed: once the signal has arrived between the detection and the
\* write of a pair, the pass finishes that pair and processes no later one.
CexC10 ==
    signalled_in_pair > 0 =>
        /\ pair <= signalled_in_pair + 1
        /\ pc = "upsert" => pair = signalled_in_pair

\* C10 as amended: once the signal has arrived between the detection and the
\* write of a pair, the pass is left only after its last pair (or by an
\* exception), then no sleep slice is slept and the loop exits without
\* another reset check or pass.
ThmC10 ==
    signalled_in_pair > 0 =>
        /\ pc \in {"upsert", "pair", "close", "sleep", "while", "exited", "crashed"}
        /\ pc \in {"upsert", "pair"} => pair \in signalled_in_pair..NumPairs
        /\ pc \in {"close", "sleep", "while", "exited"} => pair = NumPairs + 1
        /\ pc = "sleep" => slices = ActiveSlices

\* after the signal the pass is about to write a later pair
WitC10 ==
    /\ signalled_in_pair > 0
    /\ pc = "upsert"
    /\ pair > signalled_in_pair

\* the pcs of run_collector
InPass == pc \in {"open", "pair", "upsert", "close"}

\* C11: once the signal has arrived in a sleep loop, the thread is in that
\* loop, at the test of the while loop or out of it, never again in the reset
\* check, in a pass or at its notification, and no more than one slice has
\* been slept to its end since the signal.
ThmC11 ==
    signalled_in_sleep # <<>> =>
        /\ stop_event
        /\ pc \in {"sleep", "sleeping", "while", "exited"}
        /\ signalled_in_sleep[1] <= 1

\* the loop has exited after a signal that arrived during time.sleep(5), the
\* slice in progress having been slept to its end
WitC11 ==
    /\ pc = "exited"
    /\ signalled_in_sleep = <<1>>

\* run_collector has been left in this iteration, by its return or by an
\* exception
PassEnded == tick = "Active" /\ pc \in {"sleep", "sleeping", "while", "crashed"}

\* C12 as claimed: a pass that has ended has sent one notification if it
\* added a key to the dedup set and none otherwise, and the notification
\* names the keys the pass added and no other.
CexC12 ==
    PassEnded =>
        LET new == seen_retracements \ seen_before
        IN  /\ Len(sent) = IF new # {} THEN 1 ELSE 0
            /\ sent # <<>> => Listed(sent[1]) = new

\* the pair p of the pass in flight has been fetched and its write is pending
Pending(p) == pc = "upsert" /\ p = pair

\* C13: in a pass every pair up to the one in progress has been fetched once;
\* for an empty frame upsert_snapshot has not been called, for any other
\* frame it has been called exactly once, with the label (symbol, timeframe)
\* of the pair and the OHLC text of the frame, and with the OTE text of the
\* detection or, when the detection raised, the error marker.
ThmC13 ==
    /\ pc = "pair" => Len(pass_log) = pair - 1
    /\ pc = "upsert" => Len(pass_log) = pair
    /\ pc = "close" => Len(pass_log) = NumPairs
    /\ \A p \in DOMAIN pass_log :
           LET e == pass_log[p]
           IN  /\ e.series = <<>> => e.calls = <<>>
               /\ Pending(p) => e.calls = <<>>
               /\ e.series # <<>> /\ ~Pending(p) =>
                      /\ Len(e.calls) = 1
                      /\ e.calls[1].label = <<AllPairs[p].symbol, AllPairs[p].tf>>
                      /\ Len(e.calls[1].ohlc_text) = Len(e.series)
                      /\ e.calls[1].ote_text.text =
                             IF e.failed THEN "Error in OTE detection"
                             ELSE IF detect_ote(e.series).fvg_list = <<>>
                                  THEN "No OTE patterns detected"
                                  ELSE ""

\* a pass at its end that has written a pair whose detection raised and a
\* pair without any pattern
WitC13 ==
    /\ pc = "close"
    /\ \E p \in DOMAIN pass_log :
           pass_log[p].failed /\ Len(pass_log[p].calls) = 1
    /\ \E p \in DOMAIN pass_log :
           /\ ~pass_log[p].failed
           /\ Len(pass_log[p].calls) = 1
           /\ pass_log[p].calls[1].ote_text.text = "No OTE patterns detected"

\* Monday to Friday, 12:45 to 15:00, both ends inclusive
InTradingWindow(n) ==
    /\ Weekday(n.day) \in 0..4
    /\ n.tod >= HM(12, 45)
    /\ n.tod <= HM(15, 0)

\* C14: an iteration takes the Active branch exactly when the clock reading
\* of is_within_trading_hours is on Monday to Friday in [12:45, 15:00];
\* run_collector (fetch, detect, write, notify) runs in an Active iteration
\* only, and an Idle iteration only sleeps.
ThmC14 ==
    /\ tick # "" => (tick = "Active" <=> InTradingWindow(now))
    /\ InPass => tick = "Active"
    /\ tick = "Idle" => pc \in {"sleep", "sleeping", "while"} /\ sent = <<>>

\* an Idle iteration on a Saturday at 12:45
WitC14 ==
    /\ tick = "Idle"
    /\ Weekday(now.day) = 5
    /\ now.tod = HM(12, 45)

\* C19 as claimed: from a reset on, for the rest of its day, no pass runs
\* and the dedup set and the table are empty.
CexC19 ==
    last_cleared_date = <<now.day>> =>
        /\ ~InPass
        /\ tick # "Active"
        /\ seen_retracements = {}
        /\ table = {}

\* C19 as amended: a pass runs on the day of a reset, after it, only at the
\* reading 15:00:00, the reset having fired at that reading too; after a
\* reset that fired at a later reading no pass runs and the dedup set and
\* the table are empty for the rest of the day.
ThmC19 ==
    last_cleared_date = <<now.day>> =>
        /\ Len(resets) = 1
        /\ InPass \/ tick = "Active" => now.tod = HM(15, 0) /\ resets = <<HM(15, 0)>>
        /\ resets # <<HM(15, 0)>> =>
               /\ ~InPass
               /\ tick # "Active"
               /\ seen_retracements = {}
               /\ table = {}

\* the Idle iteration of a reset that fired at 15:01
WitC19 ==
    /\ last_cleared_date = <<now.day>>
    /\ resets = <<HM(15, 1)>>
    /\ tick = "Idle"
    /\ pc = "sleep"

\* C20 as claimed: when a pass has ended, by its return or by an exception,
\* every key of the dedup set has been named in a notification since the
\* last clear.
CexC20 ==
    PassEnded => seen_retracements \subseteq DOMAIN notified

====
